---- MODULE Spec2Model ----
(***************************************************************************)
(* smart_importer/predictor.py: EntryPredictor, the train-then-predict     *)
(* importer hook.  One predictor instance (its fields are the shared       *)
(* variables) is invoked by the threads of Threads; every invocation of    *)
(* __call__ is a sequence of steps, one for each point at which the        *)
(* invocation reads or writes a field of the instance.                     *)
(***************************************************************************)
EXTENDS Integers, Sequences, FiniteSets, TLC

\* ---------------------------------------------------------------- bounds
NumThreads == 2
MaxEvents == 3
MaxPostings == 2

Threads == 1..NumThreads

\* ---------------------------------------------------------------- values
None == "<None>"
NoThread == 0
Accounts == {"A", "B"}
Dates == {1, 2}

\* beancount.core.data directives; every directive has the same fields.
Open(a, d) ==
  [type |-> "Open", account |-> a, date |-> d, postings |-> <<>>, payee |-> None]
Close(a, d) ==
  [type |-> "Close", account |-> a, date |-> d, postings |-> <<>>, payee |-> None]
Transaction(ps, v) ==
  [type |-> "Transaction", account |-> None, date |-> 1, postings |-> ps, payee |-> v]
Note(a) ==
  [type |-> "Note", account |-> a, date |-> 1, postings |-> <<>>, payee |-> None]

Range(s) == {s[i] : i \in 1..Len(s)}

RECURSIVE SeqsUpTo(_, _)
SeqsUpTo(S, n) ==
  IF n = 0 THEN {<<>>}
  ELSE LET shorter == SeqsUpTo(S, n - 1)
       IN  shorter \cup {Append(s, x) : s \in {q \in shorter : Len(q) = n - 1}, x \in S}

RECURSIVE SelectSeq2(_, _, _)
\* the entries of s (from position i on) that are transactions
SelectSeq2(s, i, type) ==
  IF i > Len(s) THEN <<>>
  ELSE IF s[i].type = type THEN <<s[i]>> \o SelectSeq2(s, i + 1, type)
       ELSE SelectSeq2(s, i + 1, type)

\* beancount.core.data.filter_txns
filter_txns(entries) == SelectSeq2(entries, 1, "Transaction")

\* ---------------------------------------------------------------- state
VARIABLES
  \* configuration, fixed by __init__ and the class attributes
  attribute, predict, overwrite, denylist_accounts, anchor_accounts,
  \* fields of the predictor instance
  account, open_accounts, training_data, pipeline, is_fitted, lock,
  \* per invocation: arguments, position, locals, outcome
  pc, importer_account, existing_entries, imported_entries,
  idx, kept, fit_X, transactions, returned, err, called

cfgvars == <<attribute, predict, overwrite, denylist_accounts, anchor_accounts>>
selfvars == <<account, open_accounts, training_data, pipeline, is_fitted, lock>>
argvars == <<importer_account, existing_entries, imported_entries>>
localvars == <<idx, kept, fit_X, transactions, returned, err, called>>
vars == <<cfgvars, selfvars, pc, argvars, localvars>>

LockedPcs == {"define", "train", "fit_data", "fit", "process", "single", "predict"}

\* ---------------------------------------------------------------- helpers

\* beancount.core.data.entry_sortkey: the date, then Open before and Close
\* after the other directives of the day (then the line number, which is the
\* position in the list: beancount_sorted is a stable sort).
SortOrder(e) ==
  IF e.type = "Open" THEN 0 - 2 ELSE IF e.type = "Close" THEN 2 ELSE 0

SortsBefore(e1, e2) ==
  \/ e1.date < e2.date
  \/ e1.date = e2.date /\ SortOrder(e1) < SortOrder(e2)

RECURSIVE InsertSorted(_, _)
\* e into the sorted s, after every entry that does not sort after it
InsertSorted(s, e) ==
  IF s = <<>> THEN <<e>>
  ELSE IF SortsBefore(e, s[Len(s)])
       THEN Append(InsertSorted(SubSeq(s, 1, Len(s) - 1), e), s[Len(s)])
       ELSE Append(s, e)

\* the entries in the order of the list
unsorted(entries) == entries

RECURSIVE beancount_sorted(_)
beancount_sorted(entries) ==
  IF entries = <<>> THEN <<>>
  ELSE InsertSorted(beancount_sorted(SubSeq(entries, 1, Len(entries) - 1)),
                    entries[Len(entries)])

\* `existing_entries or []`: the argument is a list, or None
NoEntries == [given |-> FALSE, list |-> <<>>]
Entries(list) == [given |-> TRUE, list |-> list]
OrEmpty(entries) == IF entries.given THEN entries.list ELSE <<>>

RECURSIVE ScanAccounts(_, _, _)
\* the loop of load_open_accounts over the sorted entries from position i on:
\* account_map (its keys) at the end, or the KeyError of dict.pop
ScanAccounts(entries, i, account_map) ==
  IF i > Len(entries) THEN [ok |-> TRUE, map |-> account_map]
  ELSE LET entry == entries[i] IN
       IF entry.type = "Open"
       THEN ScanAccounts(entries, i + 1, account_map \cup {entry.account})
       ELSE IF entry.type = "Close"
       THEN IF entry.account \in account_map
            THEN ScanAccounts(entries, i + 1, account_map \ {entry.account})
            ELSE [ok |-> FALSE, map |-> account_map]
       ELSE ScanAccounts(entries, i + 1, account_map)

RECURSIVE FilterPostings(_, _, _, _, _, _, _)
\* the loop of training_data_filter over the postings from position i on
FilterPostings(postings, i, found_import_account, opened, denylist, acct, anchors) ==
  IF i > Len(postings)
  THEN found_import_account \/ (acct \in {None, ""} /\ anchors = {})
  ELSE IF postings[i] \notin opened THEN FALSE
  ELSE IF postings[i] \in denylist THEN FALSE
  ELSE FilterPostings(postings, i + 1,
         found_import_account \/ acct = postings[i] \/ postings[i] \in anchors,
         opened, denylist, acct, anchors)

\* the filter without the test of line 156
filter_without_denylist(txn, opened, denylist, acct, anchors) ==
  FilterPostings(txn.postings, 1, FALSE, opened, {}, acct, anchors)

training_data_filter(txn, opened, denylist, acct, anchors) ==
  FilterPostings(txn.postings, 1, FALSE, opened, denylist, acct, anchors)

\* the attribute as it is, without the `or ""`
label_without_default(entry, attr) == entry[attr]

\* the targets property, for a configured attribute: getattr(entry, attribute) or ""
Label(entry, attr) == IF entry[attr] = None THEN "" ELSE entry[attr]
targets(data, attr) == [i \in 1..Len(data) |-> Label(data[i], attr)]

\* set_entry_attribute of smart_importer.entries
set_entry_attribute(entry, attr, value, overwrite_) ==
  IF entry[attr] \notin {None, ""} /\ ~overwrite_ THEN entry
  ELSE [entry EXCEPT ![attr] = value]

\* merge_non_transaction_entries of smart_importer.entries, from position i on:
\* the transactions of imported replaced, in order, by the enhanced ones
RECURSIVE MergeFrom(_, _, _)
MergeFrom(imported, i, enhanced) ==
  IF i > Len(imported) THEN <<>>
  ELSE IF imported[i].type = "Transaction"
       THEN <<Head(enhanced)>> \o MergeFrom(imported, i + 1, Tail(enhanced))
       ELSE <<imported[i]>> \o MergeFrom(imported, i + 1, enhanced)

merge_non_transaction_entries(imported, enhanced) == MergeFrom(imported, 1, enhanced)

\* self.pipeline: None, or the object make_pipeline built in define_pipeline
\* (owner: the invocation that built it), fitted on the labels `classes` or not
NoPipeline == [owner |-> NoThread, fitted |-> FALSE, classes |-> {}]
make_pipeline(t) == [owner |-> t, fitted |-> FALSE, classes |-> {}]

Upd(f, t, v) == [f EXCEPT ![t] = v]

\* ---------------------------------------------------------------- exits

\* an exception leaves __call__ before the with statement is entered
Raise(t, e) ==
  /\ pc' = Upd(pc, t, "raised")
  /\ err' = Upd(err, t, e)
  /\ idx' = Upd(idx, t, 0)
  /\ kept' = Upd(kept, t, <<>>)
  /\ fit_X' = Upd(fit_X, t, <<>>)
  /\ transactions' = Upd(transactions, t, <<>>)
  /\ UNCHANGED <<returned, lock>>

\* an exception that leaves the lock held
RaiseKeepingLock(t, e) ==
  Raise(t, e)

\* an exception leaves the body of `with self.lock`: __exit__ releases the lock
RaiseInLock(t, e) ==
  /\ pc' = Upd(pc, t, "raised")
  /\ err' = Upd(err, t, e)
  /\ idx' = Upd(idx, t, 0)
  /\ kept' = Upd(kept, t, <<>>)
  /\ fit_X' = Upd(fit_X, t, <<>>)
  /\ transactions' = Upd(transactions, t, <<>>)
  /\ lock' = NoThread
  /\ UNCHANGED returned

\* ---------------------------------------------------------------- __call__

\* __call__ is entered with its arguments; line 102 stores the importer's account
Invoke(t, acct, existing, imported) ==
  /\ pc[t] \in {"idle", "done", "raised"}
  /\ account' = acct
  /\ importer_account' = Upd(importer_account, t, acct)
  /\ existing_entries' = Upd(existing_entries, t, existing)
  /\ imported_entries' = Upd(imported_entries, t, imported)
  /\ pc' = Upd(pc, t, "load_open")
  /\ idx' = Upd(idx, t, 0)
  /\ kept' = Upd(kept, t, <<>>)
  /\ fit_X' = Upd(fit_X, t, <<>>)
  /\ transactions' = Upd(transactions, t, <<>>)
  /\ returned' = Upd(returned, t, <<>>)
  /\ err' = Upd(err, t, None)
  /\ called' = Upd(called, t, {})
  /\ UNCHANGED <<cfgvars, open_accounts, training_data, pipeline, is_fitted, lock>>

\* load_open_accounts: the scan works on the local account_map; the field is
\* assigned once, at the end, unless dict.pop raised
LoadOpenAccounts(t) ==
  /\ pc[t] = "load_open"
  /\ LET scan == ScanAccounts(beancount_sorted(OrEmpty(existing_entries[t])), 1, {}) IN
     IF scan.ok
     THEN /\ open_accounts' = scan.map
          /\ pc' = Upd(pc, t, "filter")
          /\ idx' = Upd(idx, t, 1)
          /\ UNCHANGED <<kept, fit_X, transactions, returned, err, lock>>
     ELSE /\ Raise(t, "KeyError")
          /\ UNCHANGED open_accounts
  /\ UNCHANGED <<cfgvars, account, training_data, pipeline, is_fitted, argvars, called>>

\* one iteration of the list comprehension of load_training_data:
\* training_data_filter reads the fields of the instance
FilterTxn(t) ==
  /\ pc[t] = "filter"
  /\ LET all_transactions == filter_txns(OrEmpty(existing_entries[t])) IN
     /\ idx[t] <= Len(all_transactions)
     /\ LET txn == all_transactions[idx[t]] IN
        kept' = Upd(kept, t,
                    IF training_data_filter(txn, open_accounts, denylist_accounts,
                                            account, anchor_accounts)
                    THEN Append(kept[t], txn) ELSE kept[t])
  /\ idx' = Upd(idx, t, idx[t] + 1)
  /\ UNCHANGED <<cfgvars, selfvars, pc, argvars, fit_X, transactions, returned, err, called>>

\* the assignment self.training_data = [...] that ends the comprehension
StoreTrainingData(t) ==
  /\ pc[t] = "filter"
  /\ idx[t] > Len(filter_txns(OrEmpty(existing_entries[t])))
  /\ training_data' = kept[t]
  /\ pc' = Upd(pc, t, "acquire")
  /\ idx' = Upd(idx, t, 0)
  /\ kept' = Upd(kept, t, <<>>)
  /\ UNCHANGED <<cfgvars, account, open_accounts, pipeline, is_fitted, lock,
                 argvars, fit_X, transactions, returned, err, called>>

\* entering the section whether or not the lock is held
AcquireWithoutWaiting(t) ==
  /\ pc[t] = "acquire"
  /\ lock' = t
  /\ pc' = Upd(pc, t, "define")
  /\ UNCHANGED <<cfgvars, account, open_accounts, training_data, pipeline, is_fitted,
                 argvars, localvars>>

\* `with self.lock`: threading.Lock.acquire blocks while the lock is held
Acquire(t) ==
  /\ pc[t] = "acquire"
  /\ lock = NoThread
  /\ lock' = t
  /\ pc' = Upd(pc, t, "define")
  /\ UNCHANGED <<cfgvars, account, open_accounts, training_data, pipeline, is_fitted,
                 argvars, localvars>>

DefinePipeline(t) ==
  /\ pc[t] = "define"
  /\ pipeline' = make_pipeline(t)
  /\ pc' = Upd(pc, t, "train")
  /\ UNCHANGED <<cfgvars, account, open_accounts, training_data, is_fitted, lock,
                 argvars, localvars>>

\* train_pipeline without the branch of lines 205-207: one label is fitted too
TrainPipelineAlwaysFits(t) ==
  /\ pc[t] = "train"
  /\ IF attribute \in {None, ""}
     THEN /\ is_fitted' = FALSE
          /\ RaiseInLock(t, "NotImplementedError")
     ELSE LET targets_count == Cardinality(Range(targets(training_data, attribute))) IN
          /\ is_fitted' = FALSE
          /\ pc' = Upd(pc, t, IF targets_count > 0 THEN "fit_data" ELSE "process")
          /\ UNCHANGED <<idx, kept, fit_X, transactions, returned, err, lock>>
  /\ UNCHANGED <<cfgvars, account, open_accounts, training_data, pipeline, argvars, called>>

\* train_pipeline without the reset of line 197
TrainPipelineKeepsFitted(t) ==
  /\ pc[t] = "train"
  /\ IF attribute \in {None, ""}
     THEN /\ is_fitted' = is_fitted
          /\ RaiseInLock(t, "NotImplementedError")
     ELSE LET targets_count == Cardinality(Range(targets(training_data, attribute))) IN
          /\ is_fitted' = (is_fitted \/ targets_count = 1)
          /\ pc' = Upd(pc, t, IF targets_count > 1 THEN "fit_data" ELSE "process")
          /\ UNCHANGED <<idx, kept, fit_X, transactions, returned, err, lock>>
  /\ UNCHANGED <<cfgvars, account, open_accounts, training_data, pipeline, argvars, called>>

\* lines 197-207 of train_pipeline: the targets are read once, for their count;
\* the targets property raises if no attribute is configured
TrainPipeline(t) ==
  /\ pc[t] = "train"
  /\ IF attribute \in {None, ""}
     THEN /\ is_fitted' = FALSE
          /\ RaiseInLock(t, "NotImplementedError")
     ELSE LET targets_count == Cardinality(Range(targets(training_data, attribute))) IN
          /\ is_fitted' = (targets_count = 1)
          /\ pc' = Upd(pc, t, IF targets_count > 1 THEN "fit_data" ELSE "process")
          /\ UNCHANGED <<idx, kept, fit_X, transactions, returned, err, lock>>
  /\ UNCHANGED <<cfgvars, account, open_accounts, training_data, pipeline, argvars, called>>

\* line 210: the first argument of fit, self.training_data, is evaluated
FitReadData(t) ==
  /\ pc[t] = "fit_data"
  /\ fit_X' = Upd(fit_X, t, training_data)
  /\ pc' = Upd(pc, t, "fit")
  /\ UNCHANGED <<cfgvars, selfvars, argvars, idx, kept, transactions, returned, err, called>>

\* train_pipeline catching the failure of fit and going on unfitted
FitPipelineCatching(t) ==
  /\ pc[t] = "fit"
  /\ called' = Upd(called, t, called[t] \cup {"fit"})
  /\ LET y == targets(training_data, attribute) IN
     \/ /\ Len(fit_X[t]) = Len(y)
        /\ Cardinality(Range(y)) > 1
        /\ pipeline' = [pipeline EXCEPT !.fitted = TRUE, !.classes = Range(y)]
        /\ is_fitted' = TRUE
        /\ pc' = Upd(pc, t, "process")
        /\ fit_X' = Upd(fit_X, t, <<>>)
        /\ UNCHANGED <<idx, kept, transactions, returned, err, lock>>
     \/ /\ err' = Upd(err, t, "FitError")
        /\ pc' = Upd(pc, t, "process")
        /\ fit_X' = Upd(fit_X, t, <<>>)
        /\ UNCHANGED <<pipeline, is_fitted, idx, kept, transactions, returned, lock>>
  /\ UNCHANGED <<cfgvars, account, open_accounts, training_data, argvars>>

\* line 210-211: the second argument, self.targets, is evaluated and fit is
\* called.  fit is the classifier's: it returns, having learnt the labels, or
\* raises; it raises on samples and labels of different lengths and on fewer
\* than two classes.
FitPipeline(t) ==
  /\ pc[t] = "fit"
  /\ called' = Upd(called, t, called[t] \cup {"fit"})
  /\ LET y == targets(training_data, attribute) IN
     \/ /\ Len(fit_X[t]) = Len(y)
        /\ Cardinality(Range(y)) > 1
        /\ pipeline' = [pipeline EXCEPT !.fitted = TRUE, !.classes = Range(y)]
        /\ is_fitted' = TRUE
        /\ pc' = Upd(pc, t, "process")
        /\ fit_X' = Upd(fit_X, t, <<>>)
        /\ UNCHANGED <<idx, kept, transactions, returned, err, lock>>
     \/ /\ RaiseInLock(t, "FitError")
        /\ UNCHANGED <<pipeline, is_fitted>>
  /\ UNCHANGED <<cfgvars, account, open_accounts, training_data, argvars>>

\* process_entries returning the enhanced transactions alone
ReturnTransactionsOnly(t, enhanced_transactions) ==
  /\ returned' = Upd(returned, t, enhanced_transactions)
  /\ pc' = Upd(pc, t, "done")
  /\ lock' = NoThread
  /\ idx' = Upd(idx, t, 0)
  /\ transactions' = Upd(transactions, t, <<>>)
  /\ UNCHANGED <<kept, fit_X, err>>

\* process_entries returns merge_non_transaction_entries(...) and __call__
\* returns it, leaving the with statement
Return(t, enhanced_transactions) ==
  /\ returned' = Upd(returned, t,
                     merge_non_transaction_entries(imported_entries[t], enhanced_transactions))
  /\ pc' = Upd(pc, t, "done")
  /\ lock' = NoThread
  /\ idx' = Upd(idx, t, 0)
  /\ transactions' = Upd(transactions, t, <<>>)
  /\ UNCHANGED <<kept, fit_X, err>>

\* apply_prediction that does not pass the overwrite policy on
apply_prediction_overwriting(entry, prediction) ==
  set_entry_attribute(entry, attribute, prediction, TRUE)

\* apply_prediction, for a configured attribute
apply_prediction(entry, prediction) ==
  set_entry_attribute(entry, attribute, prediction, overwrite)

\* process_transactions without the test of line 257
ProcessTransactionsIgnoringPredict(t) ==
  /\ pc[t] = "process"
  /\ LET txns == filter_txns(imported_entries[t]) IN
     IF ~is_fitted \/ txns = <<>> THEN Return(t, txns)
     ELSE IF Cardinality(Range(targets(training_data, attribute))) = 1
     THEN /\ pc' = Upd(pc, t, "single")
          /\ idx' = Upd(idx, t, 1)
          /\ transactions' = Upd(transactions, t, txns)
          /\ UNCHANGED <<kept, fit_X, returned, err, lock>>
     ELSE IF pipeline # NoPipeline
     THEN /\ pc' = Upd(pc, t, "predict")
          /\ transactions' = Upd(transactions, t, txns)
          /\ UNCHANGED <<idx, kept, fit_X, returned, err, lock>>
     ELSE Return(t, txns)
  /\ UNCHANGED <<cfgvars, account, open_accounts, training_data, pipeline, is_fitted,
                 argvars, called>>

\* process_entries up to the branch of process_transactions (lines 224-226,
\* 254-258, 264): the targets are read for their count
ProcessTransactions(t) ==
  /\ pc[t] = "process"
  /\ LET txns == filter_txns(imported_entries[t]) IN
     IF ~is_fitted \/ txns = <<>> THEN Return(t, txns)
     ELSE IF ~predict THEN Return(t, txns)
     ELSE IF Cardinality(Range(targets(training_data, attribute))) = 1
     THEN /\ pc' = Upd(pc, t, "single")
          /\ idx' = Upd(idx, t, 1)
          /\ transactions' = Upd(transactions, t, txns)
          /\ UNCHANGED <<kept, fit_X, returned, err, lock>>
     ELSE IF pipeline # NoPipeline
     THEN /\ pc' = Upd(pc, t, "predict")
          /\ transactions' = Upd(transactions, t, txns)
          /\ UNCHANGED <<idx, kept, fit_X, returned, err, lock>>
     ELSE Return(t, txns)
  /\ UNCHANGED <<cfgvars, account, open_accounts, training_data, pipeline, is_fitted,
                 argvars, called>>

\* one iteration of the comprehension of lines 259-262: self.targets[0] is
\* evaluated for every entry
ApplySingle(t) ==
  /\ pc[t] = "single"
  /\ LET y == targets(training_data, attribute) IN
     IF y = <<>>
     THEN /\ RaiseInLock(t, "IndexError")
          /\ UNCHANGED called
     ELSE LET entry == apply_prediction(transactions[t][idx[t]], y[1])
              done == [transactions[t] EXCEPT ![idx[t]] = entry]
          IN  /\ called' = Upd(called, t, called[t] \cup {"apply"})
              /\ IF idx[t] = Len(transactions[t])
                 THEN Return(t, done)
                 ELSE /\ transactions' = Upd(transactions, t, done)
                      /\ idx' = Upd(idx, t, idx[t] + 1)
                      /\ UNCHANGED <<pc, kept, fit_X, returned, err, lock>>
  /\ UNCHANGED <<cfgvars, account, open_accounts, training_data, pipeline, is_fitted, argvars>>

\* the predictions paired with the transactions in reverse
PipelinePredictReversed(t) ==
  /\ pc[t] = "predict"
  /\ \/ /\ pipeline.fitted
        /\ \E predictions \in [1..Len(transactions[t]) -> pipeline.classes] :
             Return(t, [i \in 1..Len(transactions[t]) |->
                          apply_prediction(transactions[t][Len(transactions[t]) + 1 - i], predictions[i])])
        /\ called' = Upd(called, t, called[t] \cup {"predict", "apply"})
     \/ /\ RaiseInLock(t, IF pipeline.fitted THEN "PredictError" ELSE "NotFittedError")
        /\ called' = Upd(called, t, called[t] \cup {"predict"})
  /\ UNCHANGED <<cfgvars, account, open_accounts, training_data, pipeline, is_fitted, argvars>>

\* lines 265-269: predict is the classifier's: on a fitted pipeline it returns
\* one of the learnt labels for every transaction, or raises; on a pipeline that
\* was not fitted it raises
PipelinePredict(t) ==
  /\ pc[t] = "predict"
  /\ \/ /\ pipeline.fitted
        /\ \E predictions \in [1..Len(transactions[t]) -> pipeline.classes] :
             Return(t, [i \in 1..Len(transactions[t]) |->
                          apply_prediction(transactions[t][i], predictions[i])])
        /\ called' = Upd(called, t, called[t] \cup {"predict", "apply"})
     \/ /\ RaiseInLock(t, IF pipeline.fitted THEN "PredictError" ELSE "NotFittedError")
        /\ called' = Upd(called, t, called[t] \cup {"predict"})
  /\ UNCHANGED <<cfgvars, account, open_accounts, training_data, pipeline, is_fitted, argvars>>

\* ---------------------------------------------------------------- inputs

OpenA == Open("A", 1)
OpenB == Open("B", 1)
CloseA == Close("A", 2)
TxnAx == Transaction(<<"A">>, "x")
TxnAy == Transaction(<<"A">>, "y")
TxnA == Transaction(<<"A">>, None)
TxnABx == Transaction(<<"A", "B">>, "x")
NoteA == Note("A")
NewTxn == Transaction(<<"A">>, None)
NewTxnP == Transaction(<<"A">>, "p")

Config(a, p, o, d, n) ==
  [attribute |-> a, predict |-> p, overwrite |-> o, denylist_accounts |-> d,
   anchor_accounts |-> n]

\* the invocations of threads that share the instance
ParallelConfigs == {Config(a, TRUE, FALSE, {}, {}) : a \in {None, "payee"}}
ParallelAccounts == {"A"}
ParallelExisting ==
  {Entries(<<CloseA>>), Entries(<<OpenA, TxnAy>>), Entries(<<OpenA, TxnAx, TxnAy>>)}
ParallelImported == {<<NewTxn>>}

\* the invocations of one caller, one after the other
SerialConfigs ==
  {Config(a, p, o, dn[1], dn[2]) :
     a \in {None, "payee"}, p \in BOOLEAN, o \in BOOLEAN,
     dn \in {<<{}, {}>>, <<{"B"}, {}>>, <<{}, {"B"}>>}}
SerialAccounts == {None, "A", "B"}
SerialExisting ==
  {NoEntries, Entries(<<>>), Entries(<<CloseA>>), Entries(<<OpenA, TxnAx>>),
   Entries(<<OpenA, TxnA>>), Entries(<<OpenA, TxnAx, TxnAx>>),
   Entries(<<OpenA, TxnAx, TxnAy>>), Entries(<<OpenA, TxnAx, TxnA>>),
   Entries(<<OpenA, CloseA, TxnAx>>),
   Entries(<<OpenA, OpenB, TxnABx, TxnAy>>)}
SerialImported == {<<>>, <<NewTxn>>, <<NoteA, NewTxn, NewTxnP>>}

\* ---------------------------------------------------------------- specifications

\* __init__, for a configuration of Configs; no invocation has started
InitWith(Configs) ==
  /\ \E c \in Configs :
       /\ attribute = c.attribute
       /\ predict = c.predict
       /\ overwrite = c.overwrite
       /\ denylist_accounts = c.denylist_accounts
       /\ anchor_accounts = c.anchor_accounts
  /\ account = None
  /\ open_accounts = {}
  /\ training_data = <<>>
  /\ pipeline = NoPipeline
  /\ is_fitted = FALSE
  /\ lock = NoThread
  /\ pc = [t \in Threads |-> "idle"]
  /\ importer_account = [t \in Threads |-> None]
  /\ existing_entries = [t \in Threads |-> NoEntries]
  /\ imported_entries = [t \in Threads |-> <<>>]
  /\ idx = [t \in Threads |-> 0]
  /\ kept = [t \in Threads |-> <<>>]
  /\ fit_X = [t \in Threads |-> <<>>]
  /\ transactions = [t \in Threads |-> <<>>]
  /\ returned = [t \in Threads |-> <<>>]
  /\ err = [t \in Threads |-> None]
  /\ called = [t \in Threads |-> {}]

Call(t) ==
  \E acct \in ParallelAccounts, existing \in ParallelExisting, imported \in ParallelImported :
    Invoke(t, acct, existing, imported)

Init == InitWith(ParallelConfigs)

Next ==
  \E t \in Threads :
    \/ Call(t)
    \/ LoadOpenAccounts(t)
    \/ FilterTxn(t)
    \/ StoreTrainingData(t)
    \/ Acquire(t)
    \/ DefinePipeline(t)
    \/ TrainPipeline(t)
    \/ FitReadData(t)
    \/ FitPipeline(t)
    \/ ProcessTransactions(t)
    \/ ApplySingle(t)
    \/ PipelinePredict(t)

Spec == Init /\ [][Next]_vars

\* the steps of invocation t between its start and `with self.lock`, and from
\* there to its end: none of them waits for anything
Run(t) ==
  \/ LoadOpenAccounts(t)
  \/ FilterTxn(t)
  \/ StoreTrainingData(t)
  \/ DefinePipeline(t)
  \/ TrainPipeline(t)
  \/ FitReadData(t)
  \/ FitPipeline(t)
  \/ ProcessTransactions(t)
  \/ ApplySingle(t)
  \/ PipelinePredict(t)

\* fair scheduling: a thread that can run does run, fit and predict end, and a
\* thread waiting in threading.Lock.acquire gets the lock if it is free again
\* and again (threading.Lock has no queue: the strong condition is the
\* scheduler's, not the lock's)
SpecFair ==
  /\ Init /\ [][Next]_vars
  /\ \A t \in Threads : WF_vars(Run(t)) /\ SF_vars(Acquire(t))

\* one caller: an invocation starts when the one before it has ended
CallSerial ==
  \E acct \in SerialAccounts, existing \in SerialExisting, imported \in SerialImported :
    Invoke(1, acct, existing, imported)

InitSerial == InitWith(SerialConfigs)

NextSerial ==
  \/ CallSerial
  \/ LoadOpenAccounts(1)
  \/ FilterTxn(1)
  \/ StoreTrainingData(1)
  \/ Acquire(1)
  \/ DefinePipeline(1)
  \/ TrainPipeline(1)
  \/ FitReadData(1)
  \/ FitPipeline(1)
  \/ ProcessTransactions(1)
  \/ ApplySingle(1)
  \/ PipelinePredict(1)

SpecSerial == InitSerial /\ [][NextSerial]_vars

\* load_open_accounts on every history of at most MaxEvents Open and Close
\* directives
LifecycleEvents ==
  {Open(a, d) : a \in Accounts, d \in Dates} \cup {Close(a, d) : a \in Accounts, d \in Dates}

CallScan ==
  \E events \in SeqsUpTo(LifecycleEvents, MaxEvents) :
    /\ pc[1] = "idle"
    /\ Invoke(1, "A", Entries(events), <<>>)

InitScan == InitWith({Config("payee", TRUE, FALSE, {}, {})})

NextScan ==
  \/ CallScan
  \/ LoadOpenAccounts(1)

SpecScan == InitScan /\ [][NextScan]_vars

\* load_training_data on every transaction of at most MaxPostings postings, for
\* every set of open accounts, denylist, anchor accounts and importer account
RECURSIVE OpenAll(_)
OpenAll(S) ==
  IF S = {} THEN <<>>
  ELSE LET a == CHOOSE x \in S : TRUE IN <<Open(a, 1)>> \o OpenAll(S \ {a})

CallFilter ==
  \E acct \in Accounts \cup {None, ""}, opened \in SUBSET Accounts,
     postings \in SeqsUpTo(Accounts, MaxPostings), v \in {None, "x"} :
    /\ pc[1] = "idle"
    /\ Invoke(1, acct, Entries(OpenAll(opened) \o <<Transaction(postings, v)>>), <<>>)

InitFilter ==
  InitWith({Config("payee", TRUE, FALSE, d, n) : d \in SUBSET Accounts, n \in SUBSET Accounts})

NextFilter ==
  \/ CallFilter
  \/ LoadOpenAccounts(1)
  \/ FilterTxn(1)
  \/ StoreTrainingData(1)

SpecFilter == InitFilter /\ [][NextFilter]_vars

\* ---------------------------------------------------------------- claims

\* the training data load_training_data derives from the arguments of
\* invocation t alone
OwnTrainingData(t) ==
  LET entries == OrEmpty(existing_entries[t])
      scan == ScanAccounts(beancount_sorted(entries), 1, {})
  IN  SelectSeq(filter_txns(entries),
                LAMBDA txn : training_data_filter(txn, scan.map, denylist_accounts,
                                                  importer_account[t], anchor_accounts))

\* C1: whenever an invocation is at a step of train_pipeline or
\* process_transactions that reads self.training_data, the field holds the
\* training data derived from that invocation's own existing_entries and
\* importer account, never the data another invocation loaded.
C1_OwnTrainingDataOnly ==
  \A t \in Threads :
    pc[t] \in {"train", "fit_data", "fit", "process", "single"}
      => training_data = OwnTrainingData(t)

\* C2: at most one invocation is between define_pipeline and the end of
\* process_entries.
C2_MutualExclusion ==
  Cardinality({t \in Threads : pc[t] \in LockedPcs}) <= 1

C2_Witness ==
  \E t, u \in Threads : pc[t] \in {"train", "fit", "process"} /\ pc[u] = "acquire"

\* C3: a step of invocation t that changes training_data, open_accounts,
\* pipeline or is_fitted is taken while t holds the lock.
C3_WritesUnderLock ==
  [][\A t \in Threads :
       /\ pc'[t] # pc[t] \/ idx'[t] # idx[t]
       /\ \/ training_data' # training_data
          \/ open_accounts' # open_accounts
          \/ pipeline' # pipeline
          \/ is_fitted' # is_fitted
       => lock = t]_vars

\* C4: an invocation that has ended, by returning or by raising, does not hold
\* the lock, and the lock is free whenever no invocation is inside the with
\* statement, so that a waiting invocation can acquire it.
C4_LockReleased ==
  /\ \A t \in Threads : pc[t] \in {"idle", "done", "raised"} => lock # t
  /\ (\A t \in Threads : pc[t] \notin LockedPcs) => lock = NoThread

C4_Witness ==
  \E t, u \in Threads :
    /\ pc[t] = "raised" /\ err[t] = "FitError"
    /\ pc[u] = "define" /\ lock = u

\* C5: no invocation ends with the KeyError of load_open_accounts: a Close of
\* an account that is not open does not end the invocation.
C5_CloseNeverCrashes ==
  \A t \in Threads : ~(pc[t] = "raised" /\ err[t] = "KeyError")

\* entry i of entries comes after entry j in chronological order
After(entries, i, j) ==
  \/ SortsBefore(entries[j], entries[i])
  \/ ~SortsBefore(entries[i], entries[j]) /\ j < i

\* the most recent Open or Close of account a in entries is an Open
LastEventIsOpen(entries, a) ==
  \E i \in 1..Len(entries) :
    /\ entries[i].type = "Open" /\ entries[i].account = a
    /\ \A j \in 1..Len(entries) :
         j # i /\ entries[j].type \in {"Open", "Close"} /\ entries[j].account = a
           => After(entries, i, j)

\* C6: when load_open_accounts has completed, open_accounts holds exactly the
\* accounts whose most recent Open or Close, in chronological order, is an Open.
C6_OpenIffLastEventOpen ==
  pc[1] = "filter" =>
    open_accounts = {a \in Accounts : LastEventIsOpen(OrEmpty(existing_entries[1]), a)}

C6_Witness ==
  /\ pc[1] = "filter"
  /\ \E a \in open_accounts :
       LET entries == OrEmpty(existing_entries[1]) IN
       /\ Len(entries) = 3
       /\ \E i \in 1..Len(entries) : entries[i] = Close(a, 1)

\* the three conditions of the training set filter
Eligible(txn) ==
  LET ps == Range(txn.postings) IN
  /\ \A p \in ps : p \in open_accounts
  /\ \A p \in ps : p \notin denylist_accounts
  /\ \/ \E p \in ps : p = account
     \/ \E p \in ps : p \in anchor_accounts
     \/ account \in {None, ""} /\ anchor_accounts = {}

\* C7: training_data_filter accepts a transaction iff all its posting accounts
\* are open, none is in the denylist, and one is the importer account or an
\* anchor account or neither of these is set; every transaction of
\* training_data has all its posting accounts open and none in the denylist.
C7_FilterAcceptsIffEligible ==
  LET all_transactions == filter_txns(OrEmpty(existing_entries[1])) IN
  /\ pc[1] = "filter" /\ idx[1] = 2 =>
       (kept[1] = all_transactions <=> Eligible(all_transactions[1]))
  /\ pc[1] = "acquire" =>
       \A i \in 1..Len(training_data) :
         \A p \in Range(training_data[i].postings) :
           p \in open_accounts /\ p \notin denylist_accounts

C7_Witness ==
  /\ pc[1] = "acquire"
  /\ training_data # <<>>
  /\ Len(training_data[1].postings) = 2
  /\ denylist_accounts # {}
  /\ account \notin Range(training_data[1].postings)

\* C8: with no attribute configured, no invocation returns, and every
\* invocation that has ended has ended with the configuration error.
C8_UnconfiguredAlwaysConfigError ==
  attribute \in {None, ""} =>
    \A t \in Threads :
      /\ pc[t] # "done"
      /\ pc[t] = "raised" => err[t] = "NotImplementedError"

\* the cycle of invocation t has loaded training data with one distinct label
SingleLabel(t) ==
  /\ attribute \notin {None, ""}
  /\ pc[t] \in {"fit_data", "fit", "process", "single", "predict", "done", "raised"}
  /\ pc[t] = "raised" => err[t] # "KeyError"
  /\ Cardinality(Range(targets(training_data, attribute))) = 1

\* C9: with predict on and exactly one distinct label L among the targets, the
\* cycle is fitted after train_pipeline, calls neither fit nor predict and does
\* not fail, and returns every imported transaction with L applied by
\* apply_prediction.
C9_SingleLabelShortcut ==
  \A t \in Threads :
    predict /\ SingleLabel(t)
    => LET L == targets(training_data, attribute)[1]
           txns == filter_txns(imported_entries[t])
       IN  /\ is_fitted
           /\ pc[t] \in {"process", "single", "done"}
           /\ "fit" \notin called[t] /\ "predict" \notin called[t]
           /\ pc[t] = "done" =>
                returned[t] = merge_non_transaction_entries(imported_entries[t],
                  [i \in 1..Len(txns) |-> set_entry_attribute(txns[i], attribute, L, overwrite)])

C9_Witness ==
  /\ pc[1] = "done" /\ predict /\ attribute = "payee"
  /\ Len(training_data) = 2
  /\ is_fitted /\ called[1] = {"apply"}
  /\ \E i \in 1..Len(returned[1]) :
       /\ imported_entries[1][i] = NewTxn
       /\ returned[1][i].payee = "x"

\* the filtered training set of the cycle of invocation t is empty: the load
\* has completed and stored an empty list
EmptyTrainingSet(t) ==
  /\ pc[t] \in {"process", "done", "raised"}
  /\ pc[t] = "raised" => err[t] # "KeyError"
  /\ training_data = <<>>

\* C10 as stated: after training on an empty filtered training set, is_fitted
\* is false, no exception is raised, fit and predict are not called and the
\* imported entries are returned unmodified.
C10_EmptyTrainingPassesThrough ==
  \A t \in Threads :
    EmptyTrainingSet(t) =>
      /\ ~is_fitted
      /\ pc[t] # "raised"
      /\ called[t] = {}
      /\ pc[t] = "done" => returned[t] = imported_entries[t]

\* C10, amended: the same, for a predictor whose attribute is configured.
C10_EmptyTrainingPassesThroughConfigured ==
  attribute \notin {None, ""} => C10_EmptyTrainingPassesThrough

C10_Witness ==
  /\ pc[1] = "done" /\ predict /\ attribute = "payee"
  /\ existing_entries[1] = NoEntries
  /\ training_data = <<>> /\ ~is_fitted
  /\ pipeline.owner = 1
  /\ Len(imported_entries[1]) = 3 /\ returned[1] = imported_entries[1]

\* C11: with predict off, no invocation calls apply_prediction or the
\* pipeline's predict, and every invocation that returns returns the imported
\* entries as they were given, whatever the training data and the fitted state.
C11_PredictOffPassesThrough ==
  ~predict =>
    \A t \in Threads :
      /\ "apply" \notin called[t] /\ "predict" \notin called[t]
      /\ pc[t] \notin {"single", "predict"}
      /\ pc[t] = "done" => returned[t] = imported_entries[t]

C11_Witness ==
  /\ ~predict /\ pc[1] = "done"
  /\ is_fitted /\ pipeline.fitted /\ "fit" \in called[1]
  /\ Len(imported_entries[1]) = 3 /\ returned[1] = imported_entries[1]

\* entry `out` is entry `inp`, possibly with another value of the predicted
\* attribute
Enhanced(inp, out) ==
  [out EXCEPT ![attribute] = inp[attribute]] = inp

\* C12: the entries an invocation returns are as many as the imported entries;
\* every entry that is no transaction is returned unchanged at its position, and
\* every transaction position holds the transaction imported at that position,
\* possibly enhanced.
C12_MergePreservesPositions ==
  \A t \in Threads :
    pc[t] = "done" =>
      /\ Len(returned[t]) = Len(imported_entries[t])
      /\ \A i \in 1..Len(imported_entries[t]) :
           IF imported_entries[t][i].type = "Transaction"
           THEN Enhanced(imported_entries[t][i], returned[t][i])
           ELSE returned[t][i] = imported_entries[t][i]

C12_Witness ==
  /\ pc[1] = "done" /\ "predict" \in called[1]
  /\ imported_entries[1] = <<NoteA, NewTxn, NewTxnP>>
  /\ returned[1][1] = NoteA
  /\ returned[1][2] # NewTxn
  /\ returned[1][3] = NewTxnP

\* C13: with overwrite off, an imported transaction that has a non-empty value
\* of the predicted attribute is returned unchanged, by the single-label branch
\* and by the predict branch; when predictions were applied, every other
\* transaction (every transaction, with overwrite on) has a predicted value.
C13_OverwritePolicy ==
  \A t \in Threads :
    pc[t] = "done" =>
      \A i \in 1..Len(imported_entries[t]) :
        LET inp == imported_entries[t][i]
            out == returned[t][i]
        IN  inp.type = "Transaction" =>
              IF ~overwrite /\ inp[attribute] \notin {None, ""}
              THEN out = inp
              ELSE "apply" \in called[t] =>
                     /\ out[attribute] \in Range(targets(training_data, attribute))
                     /\ Enhanced(inp, out)

C13_Witness ==
  /\ pc[1] = "done" /\ ~overwrite /\ called[1] = {"apply"}
  /\ imported_entries[1] = <<NoteA, NewTxn, NewTxnP>>
  /\ returned[1][2].payee = "x"
  /\ returned[1][3] = NewTxnP

\* C14: an invocation in which fit or predict raised has ended with that
\* failure and has returned nothing; an invocation that returns after applying
\* predictions has applied one to every transaction of the batch.
C14_FailurePropagates ==
  \A t \in Threads :
    /\ err[t] \in {"FitError", "PredictError", "NotFittedError"} =>
         pc[t] = "raised" /\ returned[t] = <<>>
    /\ pc[t] = "done" =>
         /\ err[t] = None
         /\ "apply" \in called[t] =>
              \A i \in 1..Len(imported_entries[t]) :
                imported_entries[t][i].type = "Transaction" =>
                  \E v \in Range(targets(training_data, attribute)) :
                    returned[t][i] =
                      set_entry_attribute(imported_entries[t][i], attribute, v, overwrite)

C14_Witness ==
  /\ pc[1] = "raised" /\ err[1] = "PredictError"
  /\ "predict" \in called[1] /\ "apply" \notin called[1]
  /\ Len(imported_entries[1]) = 3 /\ returned[1] = <<>>
  /\ lock = NoThread

\* C15: an invocation that is about to call the pipeline's predict calls it on
\* the pipeline it built itself in define_pipeline and fitted in train_pipeline.
C15_PredictOnOwnFittedPipeline ==
  \A t \in Threads :
    pc[t] = "predict" => pipeline.owner = t /\ pipeline.fitted

\* C16: an invocation that is about to call the pipeline's fit passes targets
\* that are, position by position, the labels of the training transactions it
\* passes.
C16_TargetsMatchTrainingData ==
  \A t \in Threads :
    pc[t] = "fit" => targets(training_data, attribute) = targets(fit_X[t], attribute)

\* C17: when process_transactions runs, is_fitted says what train_pipeline
\* found in this cycle: it is true iff the cycle's targets have one distinct
\* label, or more than one and fit succeeded on the pipeline of this cycle; a
\* cycle with an empty training set applies no prediction, whatever the cycle
\* before it left in is_fitted.
C17_FittedStateIsPerCycle ==
  \A t \in Threads :
    /\ pc[t] \in {"process", "single", "predict"} =>
         LET n == Cardinality(Range(targets(training_data, attribute))) IN
         is_fitted <=>
           \/ n = 1
           \/ n > 1 /\ pipeline.owner = t /\ pipeline.fitted /\ "fit" \in called[t]
    /\ pc[t] = "done" /\ training_data = <<>> =>
         "apply" \notin called[t] /\ returned[t] = imported_entries[t]

\* a cycle with an empty training set starts training with the is_fitted of a
\* fitted cycle before it
C17_Witness ==
  /\ pc[1] = "train" /\ lock = 1
  /\ is_fitted /\ training_data = <<>>
  /\ attribute = "payee" /\ predict
  /\ imported_entries[1] = <<NewTxn>>

Loaded(t) ==
  /\ attribute \notin {None, ""}
  /\ pc[t] \in {"fit_data", "fit", "process", "single", "predict", "done", "raised"}
  /\ pc[t] = "raised" => err[t] # "KeyError"

HasNoAttribute(entry) == entry[attribute] \in {None, ""}

\* C19: a training example without the attribute has the label "".  When no
\* example of a non-empty training set has the attribute, the cycle has the one
\* label "", is fitted without fit, and "" is what apply_prediction puts on the
\* imported transactions; when some examples have it and others do not, "" is
\* one more label and the cycle goes through fit.
C19_EmptyStringIsALabel ==
  \A t \in Threads :
    Loaded(t) /\ training_data # <<>> =>
      LET y == targets(training_data, attribute)
          txns == filter_txns(imported_entries[t])
      IN  /\ \A i \in 1..Len(y) : HasNoAttribute(training_data[i]) => y[i] = ""
          /\ (\A i \in 1..Len(y) : HasNoAttribute(training_data[i])) =>
               /\ is_fitted /\ called[t] \subseteq {"apply"}
               /\ pc[t] \in {"process", "single", "done"}
               /\ pc[t] = "done" /\ predict =>
                    returned[t] = merge_non_transaction_entries(imported_entries[t],
                      [i \in 1..Len(txns) |->
                         set_entry_attribute(txns[i], attribute, "", overwrite)])
          /\ (\E i, j \in 1..Len(y) :
                HasNoAttribute(training_data[i]) /\ ~HasNoAttribute(training_data[j])) =>
               /\ pc[t] # "single"
               /\ pc[t] \in {"process", "predict", "done"} =>
                    pipeline.fitted /\ "" \in pipeline.classes

C19_Witness ==
  /\ pc[1] = "done" /\ predict /\ attribute = "payee"
  /\ training_data = <<TxnA>>
  /\ is_fitted /\ called[1] = {"apply"}
  /\ imported_entries[1] = <<NewTxn>> /\ returned[1][1].payee = ""

\* an invocation is under way
Running(t) == pc[t] \notin {"idle", "done", "raised"}

\* every invocation under way ends, by returning or by raising
C20_Terminates ==
  \A t \in Threads : Running(t) ~> pc[t] \in {"done", "raised"}

\* the lock is taken only by a thread waiting at `with self.lock`, which does
\* not hold it, and is given up only when the invocation ends
C20_AcquiresAtMostOnce ==
  [][\A t \in Threads :
       /\ lock' = t /\ lock # t => lock = NoThread /\ pc[t] = "acquire" /\ pc'[t] = "define"
       /\ pc'[t] = "acquire" /\ pc[t] # "acquire" => pc[t] = "filter" /\ lock # t
       /\ lock = t /\ lock' # t => lock' = NoThread /\ pc'[t] \in {"done", "raised"}]_vars

\* every invocation that starts comes to hold the lock
C20_AcquiresAtLeastOnce ==
  \A t \in Threads : pc[t] = "load_open" ~> lock = t

\* C20: under fair scheduling, with fit and predict ending, every invocation
\* on a shared instance returns or raises; each invocation takes the lock
\* exactly once, never while it holds it, and no waiter waits forever.
C20_EveryInvocationEnds ==
  /\ C20_Terminates
  /\ C20_AcquiresAtMostOnce
  /\ C20_AcquiresAtLeastOnce

\* the same without the part about invocations that raise before the lock
C20_EndsAndNeverReacquires == C20_Terminates /\ C20_AcquiresAtMostOnce

\* every invocation that reaches `with self.lock` comes to hold the lock
C20_NoWaiterStarves ==
  \A t \in Threads : pc[t] = "acquire" ~> lock = t

====
